---- MODULE Spec2Model ----
(***************************************************************************)
(* Model of backend/main.py: the POST /explain endpoint of the Concept     *)
(* Explainer API.  A request is validated by the framework against         *)
(* ExplanationRequest, handled by the coroutine explain_concept on the     *)
(* server's event loop, forwarded to the generator with one synchronous    *)
(* requests.post call, and the outcome of that call is translated into the *)
(* client's response by the try/except chain of the handler.               *)
(***************************************************************************)
EXTENDS Integers, Sequences, FiniteSets, TLC

\* ------------------------------------------------------------------ bounds
\* Longest generated text the generator answers with (in characters).
MaxLen == 2

\* Connections the server has open at once (request slots).
Requests == {1, 2}

\* ------------------------------------------------------------ input domains
\* Characters of a generated text: one printing character, one whitespace.
Chars == {"a", " "}
Whitespace == {" "}

RECURSIVE TextsOfLen(_)
TextsOfLen(n) ==
    IF n = 0 THEN {<<>>}
    ELSE {Append(t, c) : t \in TextsOfLen(n - 1), c \in Chars}

Texts == UNION {TextsOfLen(n) : n \in 0..MaxLen}

Topics == {"", "monads"}
Difficulties == {"beginner", "intermediate", "advanced", "Beginner", "expert"}

\* JSON bodies a client can post: an object with any subset of the two fields
\* (an absent field is recorded with the value "").
RequestBodies ==
    {[fields |-> {"topic", "difficulty"}, topic |-> t, difficulty |-> d] :
        t \in Topics, d \in Difficulties}
    \cup {[fields |-> {"topic"}, topic |-> t, difficulty |-> ""] : t \in Topics}
    \cup {[fields |-> {"difficulty"}, topic |-> "", difficulty |-> d] :
            d \in Difficulties}
    \cup {[fields |-> {}, topic |-> "", difficulty |-> ""]}

\* HTTP statuses the generator may answer with (1xx, 2xx, 3xx, 4xx, 5xx).
Statuses == {101, 200, 204, 301, 404, 500}

\* Bodies the generator may answer with.
\*   shape "not_json"   : the body is not a JSON document
\*   shape "json_array" : a JSON document that is not an object
\*   shape "object"     : a JSON object; rtype tells what its "response" is
ReplyBodies ==
    {[shape |-> "not_json", rtype |-> "none", text |-> <<>>],
     [shape |-> "json_array", rtype |-> "none", text |-> <<>>],
     [shape |-> "object", rtype |-> "missing", text |-> <<>>],
     [shape |-> "object", rtype |-> "null", text |-> <<>>],
     [shape |-> "object", rtype |-> "number", text |-> <<>>]}
    \cup {[shape |-> "object", rtype |-> "text", text |-> x] : x \in Texts}

NoBody == [shape |-> "none", rtype |-> "none", text |-> <<>>]

\* What the single requests.post call can end with.
Outcome(kind, status, body) == [kind |-> kind, status |-> status, body |-> body]
NoOutcome == Outcome("none", 0, NoBody)

\* ------------------------------------------------------- ExplanationRequest
\* pydantic accepts the body iff both declared fields are present.
ExplanationRequest(b) == b.fields = {"topic", "difficulty"}

\* -------------------------------------------------------- difficulty check
valid_difficulties == <<"beginner", "intermediate", "advanced">>

InvalidDifficultyLax(d) ==
    d \notin {"beginner", "intermediate", "advanced", "expert"}

InvalidDifficulty(d) ==
    \A i \in 1..Len(valid_difficulties) : valid_difficulties[i] # d

\* ', '.join(xs), as the sequence of the pieces of the joined text.
RECURSIVE Join(_, _)
Join(sep, xs) ==
    IF Len(xs) = 0 THEN <<>>
    ELSE IF Len(xs) = 1 THEN <<xs[1]>>
    ELSE <<xs[1], sep>> \o Join(sep, Tail(xs))

InvalidDifficultyDetail ==
    <<"Invalid difficulty. Must be one of: ">> \o Join(", ", valid_difficulties)

\* ------------------------------------------------------------------ prompt
Prompt(b) ==
    <<"Explain the concept of \"", b.topic, "\" in ", b.difficulty, " terms.">>

ollama_payload(b) ==
    [model |-> "qwen2.5:3b", prompt |-> Prompt(b), stream |-> FALSE]

\* timeout=120 of the outbound call.
timeout == 120

\* --------------------------------------------------------------- str.strip
RECURSIVE LStrip(_)
LStrip(s) ==
    IF Len(s) > 0 /\ Head(s) \in Whitespace THEN LStrip(Tail(s)) ELSE s

RECURSIVE RStrip(_)
RStrip(s) ==
    IF Len(s) > 0 /\ s[Len(s)] \in Whitespace
    THEN RStrip(SubSeq(s, 1, Len(s) - 1))
    ELSE s

StripLeftOnly(s) == LStrip(s)

Strip(s) == LStrip(RStrip(s))

\* ------------------------------------------------------ exception classes
\* The classes the handler's try block can raise, each with the set of the
\* classes it is an instance of (itself and its bases).
Ancestors(c) ==
    CASE c = "ConnectionError" ->
            {"ConnectionError", "RequestException", "Exception"}
      [] c = "ConnectTimeout" ->
            {"ConnectTimeout", "ConnectionError", "Timeout",
             "RequestException", "Exception"}
      [] c = "ReadTimeout" ->
            {"ReadTimeout", "Timeout", "RequestException", "Exception"}
      [] c = "TooManyRedirects" ->
            {"TooManyRedirects", "RequestException", "Exception"}
      [] c = "HTTPError" -> {"HTTPError", "RequestException", "Exception"}
      [] c = "JSONDecodeError" ->
            {"JSONDecodeError", "InvalidJSONError", "RequestException",
             "ValueError", "Exception"}
      [] c = "ValueError" -> {"ValueError", "Exception"}
      [] c = "AttributeError" -> {"AttributeError", "Exception"}
      [] c = "HTTPException" -> {"HTTPException", "Exception"}
      [] OTHER -> {c}

IsInstance(c, cls) == cls \in Ancestors(c)

\* What response.json() raises on a body that is not JSON: the requests
\* library's own JSONDecodeError, or the plain ValueError of its older
\* releases (the repository pins no version).
JsonFaults == {"JSONDecodeError", "ValueError"}

\* --------------------------------------------------------------- responses
Response(status, field, type, value) ==
    [status |-> status, field |-> field, type |-> type, value |-> value]

HTTPException(status, detail) == Response(status, "detail", "text", <<detail>>)

ExplanationResponse(text) == Response(200, "explanation", "text", text)

\* The framework's answer to a body that fails ExplanationRequest.
RequestValidationError ==
    Response(422, "detail", "list", <<"field required">>)

\* The framework's answer to an exception no handler translates.
ServerError == Response(500, "plain", "text", <<"Internal Server Error">>)

\* ------------------------------------------------------------ the try block
Returned(text) == [raised |-> "", text |-> text]
Raised(c) == [raised |-> c, text |-> <<>>]

RaiseForStatusServerOnly(status) == 500 <= status /\ status < 600

\* response.raise_for_status(): TRUE iff it raises HTTPError.
RaiseForStatus(status) == 400 <= status /\ status < 600

\* response.json(), .get("response", "").strip() and the emptiness test.
Extract(body, jsonFault) ==
    IF body.shape = "not_json" THEN Raised(jsonFault)
    ELSE IF body.shape # "object" THEN Raised("AttributeError")
    ELSE IF body.rtype \in {"null", "number"} THEN Raised("AttributeError")
    ELSE LET explanation_text ==
                 Strip(IF body.rtype = "missing" THEN <<>> ELSE body.text)
         IN  IF explanation_text = <<>> THEN Raised("HTTPException")
             ELSE Returned(explanation_text)

\* The body of the try statement, from the end of requests.post on.
TryBody(o, jsonFault) ==
    CASE o.kind = "refused" -> Raised("ConnectionError")
      [] o.kind = "connect_timeout" -> Raised("ConnectTimeout")
      [] o.kind = "read_timeout" -> Raised("ReadTimeout")
      [] o.kind = "too_many_redirects" -> Raised("TooManyRedirects")
      [] o.kind = "reply" ->
            IF RaiseForStatus(o.status) THEN Raised("HTTPError")
            ELSE Extract(o.body, jsonFault)

\* ------------------------------------------------------- the except clauses
ExceptNoConnectionClause(c) ==
    IF IsInstance(c, "Timeout")
    THEN HTTPException(504, "Request to Ollama timed out")
    ELSE IF IsInstance(c, "RequestException")
    THEN HTTPException(502, "Error communicating with Ollama")
    ELSE IF IsInstance(c, "Exception")
    THEN HTTPException(500, "Internal server error")
    ELSE ServerError

ExceptNoCatchAll(c) ==
    IF IsInstance(c, "ConnectionError")
    THEN HTTPException(503,
        "Ollama service unavailable. Make sure Ollama is running on port 11434")
    ELSE IF IsInstance(c, "Timeout")
    THEN HTTPException(504, "Request to Ollama timed out")
    ELSE IF IsInstance(c, "RequestException")
    THEN HTTPException(502, "Error communicating with Ollama")
    ELSE ServerError

\* The first clause, in source order, whose class the exception is an
\* instance of handles it.
Except(c) ==
    IF IsInstance(c, "ConnectionError")
    THEN HTTPException(503,
        "Ollama service unavailable. Make sure Ollama is running on port 11434")
    ELSE IF IsInstance(c, "Timeout")
    THEN HTTPException(504, "Request to Ollama timed out")
    ELSE IF IsInstance(c, "RequestException")
    THEN HTTPException(502, "Error communicating with Ollama")
    ELSE IF IsInstance(c, "Exception")
    THEN HTTPException(500, "Internal server error")
    ELSE ServerError

\* The response of the handler once the outbound call has ended with o.
Translate(o, jsonFault) ==
    LET r == TryBody(o, jsonFault)
    IN  IF r.raised = "" THEN ExplanationResponse(r.text) ELSE Except(r.raised)

\* ------------------------------------------------------------------- state
VARIABLES
    pc,        \* per request: "idle", "received", "calling" or "done"
    request,   \* per request: the JSON body the client posted
    outbound,  \* per request: the payloads posted to the generator, in order
    upstream,  \* per request: how its outbound call ended
    response,  \* per request: the responses sent to the client, in order
    loop       \* the request whose handler occupies the event loop, or 0

vars == <<pc, request, outbound, upstream, response, loop>>

NoRequest == [fields |-> {}, topic |-> "", difficulty |-> ""]

Init ==
    /\ pc = [r \in Requests |-> "idle"]
    /\ request = [r \in Requests |-> NoRequest]
    /\ outbound = [r \in Requests |-> <<>>]
    /\ upstream = [r \in Requests |-> NoOutcome]
    /\ response = [r \in Requests |-> <<>>]
    /\ loop = 0

\* A client posts body b to /explain.
Post(r, b) ==
    /\ pc[r] = "idle"
    /\ pc' = [pc EXCEPT ![r] = "received"]
    /\ request' = [request EXCEPT ![r] = b]
    /\ UNCHANGED <<outbound, upstream, response, loop>>

\* The framework rejects a body that is no ExplanationRequest; the handler
\* does not run.
Reject(r) ==
    /\ pc[r] = "received"
    /\ loop = 0
    /\ ~ExplanationRequest(request[r])
    /\ pc' = [pc EXCEPT ![r] = "done"]
    /\ response' = [response EXCEPT ![r] = Append(@, RequestValidationError)]
    /\ UNCHANGED <<request, outbound, upstream, loop>>

SendTwice(sent, payload) == sent \o <<payload, payload>>

\* requests.post(...) puts one request on the wire.
Send(sent, payload) == Append(sent, payload)

\* The coroutine explain_concept starts on the event loop: the difficulty
\* check, then the prompt, the payload and the start of requests.post, which
\* does not yield the event loop.
explain_concept(r) ==
    /\ pc[r] = "received"
    /\ loop = 0
    /\ ExplanationRequest(request[r])
    /\ IF InvalidDifficulty(request[r].difficulty)
       THEN /\ pc' = [pc EXCEPT ![r] = "done"]
            /\ response' = [response EXCEPT
                   ![r] = Append(@, Response(400, "detail", "text",
                                             InvalidDifficultyDetail))]
            /\ UNCHANGED <<outbound, loop>>
       ELSE /\ pc' = [pc EXCEPT ![r] = "calling"]
            /\ outbound' = [outbound EXCEPT
                   ![r] = Send(@, ollama_payload(request[r]))]
            /\ loop' = r
            /\ UNCHANGED response
    /\ UNCHANGED <<request, upstream>>

\* requests.post ends with outcome o; the rest of the handler runs and the
\* response is sent.
Finish(r, o, jsonFault) ==
    /\ pc[r] = "calling"
    /\ loop = r
    /\ pc' = [pc EXCEPT ![r] = "done"]
    /\ upstream' = [upstream EXCEPT ![r] = o]
    /\ response' = [response EXCEPT ![r] = Append(@, Translate(o, jsonFault))]
    /\ loop' = 0
    /\ UNCHANGED <<request, outbound>>

\* The connection to the generator is refused or the host is unreachable.
ConnectionRefused(r) == Finish(r, Outcome("refused", 0, NoBody), "JSONDecodeError")

\* The connection is not established within the timeout.
ConnectTimedOut(r) ==
    Finish(r, Outcome("connect_timeout", 0, NoBody), "JSONDecodeError")

\* The generator sends nothing for the length of the timeout.
ReadTimedOut(r) == Finish(r, Outcome("read_timeout", 0, NoBody), "JSONDecodeError")

\* Another fault of the transport (here: more redirects than requests follows).
TransportFault(r) ==
    Finish(r, Outcome("too_many_redirects", 0, NoBody), "JSONDecodeError")

\* The generator answers with an HTTP status and a body.
Reply(r) ==
    \E s \in Statuses, b \in ReplyBodies, f \in JsonFaults :
        Finish(r, Outcome("reply", s, b), f)

Next ==
    \E r \in Requests :
        \/ \E b \in RequestBodies : Post(r, b)
        \/ Reject(r)
        \/ explain_concept(r)
        \/ ConnectionRefused(r)
        \/ ConnectTimedOut(r)
        \/ ReadTimedOut(r)
        \/ TransportFault(r)
        \/ Reply(r)

Spec == Init /\ [][Next]_vars

TypeOK ==
    /\ \A r \in Requests : pc[r] \in {"idle", "received", "calling", "done"}
    /\ loop \in Requests \cup {0}

\* ---------------------------------------------------------------- claims
Allowed == {"beginner", "intermediate", "advanced"}

Done(r) == pc[r] = "done"
Accepted(r) == request[r].fields = {"topic", "difficulty"}
ValidRequest(r) == Accepted(r) /\ request[r].difficulty \in Allowed
Answered(r, status) == Len(response[r]) = 1 /\ response[r][1].status = status
Is2xx(status) == 200 <= status /\ status <= 299
Replied(r) == Done(r) /\ ValidRequest(r) /\ upstream[r].kind = "reply"
Blank(x) == \A i \in 1..Len(x) : x[i] \in Whitespace

\* y is x without its leading and trailing whitespace.
IsTrimOf(y, x) ==
    \E i, j \in 0..Len(x) :
        /\ i + j <= Len(x)
        /\ y = SubSeq(x, i + 1, Len(x) - j)
        /\ Blank(SubSeq(x, 1, i))
        /\ Blank(SubSeq(x, Len(x) - j + 1, Len(x)))
        /\ (y # <<>> => y[1] \notin Whitespace /\ y[Len(y)] \notin Whitespace)

\* C1: a request whose difficulty is not exactly one of the three allowed
\* values is answered 400 with a detail that names all three values, and no
\* call to the generator is ever made for it.
C1_InvalidDifficultyRejected ==
    \A r \in Requests :
        (Accepted(r) /\ request[r].difficulty \notin Allowed) =>
            /\ outbound[r] = <<>>
            /\ pc[r] # "calling"
            /\ upstream[r] = NoOutcome
            /\ Done(r) =>
                /\ Answered(r, 400)
                /\ response[r][1].field = "detail"
                /\ response[r][1].type = "text"
                /\ \A d \in Allowed :
                       \E i \in 1..Len(response[r][1].value) :
                           response[r][1].value[i] = d

C1_Witness ==
    \E r \in Requests :
        /\ Done(r)
        /\ request[r] = [fields |-> {"topic", "difficulty"},
                         topic |-> "monads", difficulty |-> "expert"]
        /\ Answered(r, 400)
        /\ \E q \in Requests :
               /\ Done(q)
               /\ Accepted(q)
               /\ request[q].difficulty = "Beginner"
               /\ Answered(q, 400)

\* C2: a 2xx answer whose JSON object has an empty, whitespace-only or
\* missing "response" field is answered 502.
C2_EmptyResponseIsBadGateway ==
    \A r \in Requests :
        (/\ Replied(r)
         /\ Is2xx(upstream[r].status)
         /\ upstream[r].body.shape = "object"
         /\ \/ upstream[r].body.rtype = "missing"
            \/ upstream[r].body.rtype = "text" /\ Blank(upstream[r].body.text))
        => Answered(r, 502)

\* C3: a 200 answer {"response": X} with trim(X) non-empty is answered 200
\* with exactly {"explanation": trim(X)}.
C3_SuccessReturnsTrimmedText ==
    \A r \in Requests :
        (/\ Replied(r)
         /\ upstream[r].status = 200
         /\ upstream[r].body.shape = "object"
         /\ upstream[r].body.rtype = "text"
         /\ ~Blank(upstream[r].body.text))
        => /\ Answered(r, 200)
           /\ response[r][1].field = "explanation"
           /\ response[r][1].type = "text"
           /\ response[r][1].value # <<>>
           /\ IsTrimOf(response[r][1].value, upstream[r].body.text)

C3_Witness ==
    \E r, q \in Requests :
        /\ Replied(r)
        /\ upstream[r].status = 200
        /\ upstream[r].body.rtype = "text"
        /\ upstream[r].body.text = <<" ", "a">>
        /\ response[r] = <<ExplanationResponse(<<"a">>)>>
        /\ Replied(q)
        /\ upstream[q].status = 200
        /\ upstream[q].body.rtype = "text"
        /\ upstream[q].body.text = <<"a", " ">>
        /\ response[q] = <<ExplanationResponse(<<"a">>)>>

\* C4: while one request waits on its outbound call, another request that
\* has arrived can be processed (validated and answered).
C4_OtherRequestsNotBlocked ==
    \A r, q \in Requests :
        (r # q /\ pc[r] = "calling" /\ pc[q] = "received")
        => ENABLED (Reject(q) \/ explain_concept(q))

\* C5: an outbound call that exceeds the time bound, while connecting or
\* while waiting for the reply, is answered 504.
C5_TimeoutIsGatewayTimeout ==
    \A r \in Requests :
        (/\ Done(r)
         /\ ValidRequest(r)
         /\ upstream[r].kind \in {"connect_timeout", "read_timeout"})
        => Answered(r, 504)

\* C6: a refused connection or an unreachable generator is answered 503.
C6_RefusedIsServiceUnavailable ==
    \A r \in Requests :
        (Done(r) /\ ValidRequest(r) /\ upstream[r].kind = "refused")
        => /\ Answered(r, 503)
           /\ response[r][1].field = "detail"
           /\ response[r][1].type = "text"

C6_Witness ==
    \E r \in Requests :
        /\ Done(r)
        /\ ValidRequest(r)
        /\ request[r].topic = ""
        /\ upstream[r].kind = "refused"
        /\ Answered(r, 503)

\* C7 as stated: an answer with any status outside 2xx is answered 502,
\* whatever its body.
C7_Non2xxIsBadGateway ==
    \A r \in Requests :
        (Replied(r) /\ ~Is2xx(upstream[r].status)) => Answered(r, 502)

\* C7 as amended: an answer with a 4xx or 5xx status is answered 502,
\* whatever its body.
C7_ErrorStatusIsBadGateway ==
    \A r \in Requests :
        (/\ Replied(r)
         /\ 400 <= upstream[r].status
         /\ upstream[r].status <= 599)
        => /\ Answered(r, 502)
           /\ response[r][1].field = "detail"
           /\ response[r][1].type = "text"

C7_Witness ==
    \E r \in Requests :
        /\ Replied(r)
        /\ upstream[r].status = 404
        /\ upstream[r].body.rtype = "text"
        /\ upstream[r].body.text = <<"a">>
        /\ Answered(r, 502)

\* C8: a 2xx answer whose body is not JSON, is JSON but no object, or has a
\* "response" that is null or not text, is answered 502.
C8_MalformedBodyIsBadGateway ==
    \A r \in Requests :
        (/\ Replied(r)
         /\ Is2xx(upstream[r].status)
         /\ \/ upstream[r].body.shape \in {"not_json", "json_array"}
            \/ upstream[r].body.rtype \in {"null", "number"})
        => Answered(r, 502)

\* C9: at most one outbound call per request: exactly one once a request
\* with a valid difficulty has been handled, none otherwise, and none is
\* added after the call has failed.
C9_AtMostOneOutboundCall ==
    \A r \in Requests :
        /\ Len(outbound[r]) <= 1
        /\ ~ValidRequest(r) => outbound[r] = <<>>
        /\ pc[r] \in {"calling", "done"} =>
               Len(outbound[r]) = IF ValidRequest(r) THEN 1 ELSE 0

C9_Witness ==
    \E r, q \in Requests :
        /\ Done(r)
        /\ ValidRequest(r)
        /\ upstream[r].kind = "read_timeout"
        /\ Len(outbound[r]) = 1
        /\ Len(response[r]) = 1
        /\ Replied(q)
        /\ upstream[q].status = 500
        /\ Len(outbound[q]) = 1

\* The body that goes with a status of the documented set.
DocumentedAnswer(a) ==
    \/ /\ a.status = 200
       /\ a.field = "explanation"
       /\ a.type = "text"
       /\ a.value # <<>>
    \/ /\ a.status \in {400, 502, 503, 504, 500}
       /\ a.field = "detail"
       /\ a.type = "text"

\* C10 as stated: every request, whatever its input, ends with exactly one
\* response, of status 200 or 400, 502, 503, 504 or 500.
C10_EveryRequestDocumentedStatus ==
    \A r \in Requests :
        Done(r) => Len(response[r]) = 1 /\ DocumentedAnswer(response[r][1])

\* C10 as amended: every request whose body carries both fields ends with
\* exactly one response, of status 200 or 400, 502, 503, 504 or 500; a
\* request whose body lacks a field ends with exactly one response of status
\* 422, and nothing is sent to a client before its request is done.
C10_AcceptedRequestDocumentedStatus ==
    \A r \in Requests :
        /\ ~Done(r) => response[r] = <<>>
        /\ Done(r) =>
            /\ Len(response[r]) = 1
            /\ Accepted(r) => DocumentedAnswer(response[r][1])
            /\ ~Accepted(r) =>
                   response[r][1].status = 422 /\ outbound[r] = <<>>

C10_Witness ==
    \E r, q \in Requests :
        /\ Replied(r)
        /\ upstream[r].status = 200
        /\ upstream[r].body.shape = "json_array"
        /\ response[r] = <<HTTPException(500, "Internal server error")>>
        /\ Done(q)
        /\ ~Accepted(q)
        /\ Answered(q, 422)

====
